---- MODULE Spec2Model ----
(***************************************************************************)
(* MultiFinX, ROUND_2/agents: the expert / summarizer / final-synthesis    *)
(* node functions of agent_nodes.py and the two levels of graph that       *)
(* group_agents.py builds from them (the five group graphs and the main    *)
(* graph), executed superstep by superstep as a compiled StateGraph does.  *)
(*                                                                         *)
(* Texts are strings; a mapping (a Python dict) is a function whose        *)
(* DOMAIN is its key set; a raised exception is a record                   *)
(* [raised |-> TRUE, msg |-> str(e)].                                      *)
(***************************************************************************)
EXTENDS Naturals, Sequences, FiniteSets, TLC

VARIABLES
    env,        \* the collaborators' behaviour during this run (fixed per call)
    expert_nodes, \* group -> the expert list its group graph was built from
    state,      \* main graph: the channel values, one per key that has been written
    active,     \* main graph: the nodes of the current superstep
    task,       \* main graph: node -> "pending" | "running" | "done" in this superstep
    writes,     \* main graph: node -> the update the node returned in this superstep
    sub,        \* group node -> its group graph's own run: [st, nodes, pc, phase]
    status,     \* "running" | "done" | "raised" (an exception left invoke)
    error,      \* the message of the exception that left invoke, "" when none
    res         \* the value of the last direct call of a node function (SpecTask)

vars == <<env, expert_nodes, state, active, task, writes, sub, status, error, res>>

----------------------------------------------------------------------------
(* Bounds of the model *)

\* the longest query list a query-generation response carries
MaxQueries == 2

\* the most quoted-looking lines a query-generation response carries
MaxLines == 6

----------------------------------------------------------------------------
(* The fixed configuration: groups, expert names, display names *)

NumGroups == 5

Groups == 1..NumGroups

GroupKey(g) ==
    CASE g = 1 -> "group_1" [] g = 2 -> "group_2" [] g = 3 -> "group_3"
      [] g = 4 -> "group_4" [] g = 5 -> "group_5"

\* question_key = f"question_{group_key[-1]}"
QuestionKey(g) ==
    CASE g = 1 -> "question_1" [] g = 2 -> "question_2" [] g = 3 -> "question_3"
      [] g = 4 -> "question_4" [] g = 5 -> "question_5"

\* the agent_name given to create_expert_agent, in the order the nodes are
\* listed in the group graph
ExpertNodes ==
    [g \in Groups |->
        CASE g = 1 -> <<"market_analyst", "technical_analyst", "fundamental_analyst",
                        "sentiment_analyst", "economic_indicators_expert">>
          [] g = 2 -> <<"financial_statement_analyst", "financial_ratio_expert",
                        "valuation_expert", "cash_flow_analyst",
                        "capital_structure_expert">>
          [] g = 3 -> <<"banking_finance_expert", "real_estate_expert",
                        "consumer_goods_expert", "industrial_expert",
                        "technology_expert">>
          [] g = 4 -> <<"global_markets_expert", "geopolitical_risk_analyst",
                        "regulatory_framework_expert", "monetary_policy_expert",
                        "demographic_trends_expert">>
          [] g = 5 -> <<"game_theory_strategist", "risk_management_expert",
                        "portfolio_optimization_expert",
                        "asset_allocation_strategist",
                        "investment_psychology_expert">>]

\* the group_name given to create_group_summarizer
GroupName(g) ==
    CASE g = 1 -> "Phân tích Thị trường (Market Analysis)"
      [] g = 2 -> "Phân tích Tài chính (Financial Analysis)"
      [] g = 3 -> "Phân tích Ngành (Sectoral Analysis)"
      [] g = 4 -> "Yếu tố Bên ngoài (External Factors)"
      [] g = 5 -> "Lập chiến lược (Strategy)"

\* the expert_names list given to create_group_summarizer
SummarizerExperts ==
    [g \in Groups |->
        CASE g = 1 -> <<"market_analyst", "technical_analyst", "fundamental_analyst",
                        "sentiment_analyst", "economic_indicators_expert">>
          [] g = 2 -> <<"financial_statement_analyst", "financial_ratio_expert",
                        "valuation_expert", "cash_flow_analyst",
                        "capital_structure_expert">>
          [] g = 3 -> <<"banking_finance_expert", "real_estate_expert",
                        "consumer_goods_expert", "industrial_expert",
                        "technology_expert">>
          [] g = 4 -> <<"global_markets_expert", "geopolitical_risk_analyst",
                        "regulatory_framework_expert", "monetary_policy_expert",
                        "demographic_trends_expert">>
          [] g = 5 -> <<"game_theory_strategist", "risk_management_expert",
                        "portfolio_optimization_expert",
                        "asset_allocation_strategist",
                        "investment_psychology_expert">>]

\* expert nodes that were all created with the first group's key
ExpertAgent_one_key(node) ==
    [agent_name |-> node, group_key |-> "group_1"]

\* create_expert_agent(system_prompt, agent_name, group_key): the agent_name
\* and group_key each expert node was created with
ExpertAgent(node) ==
    CASE node = "market_analyst_node" ->
           [agent_name |-> "market_analyst", group_key |-> "group_1"]
      [] node = "technical_analyst_node" ->
           [agent_name |-> "technical_analyst", group_key |-> "group_1"]
      [] node = "fundamental_analyst_node" ->
           [agent_name |-> "fundamental_analyst", group_key |-> "group_1"]
      [] node = "sentiment_analyst_node" ->
           [agent_name |-> "sentiment_analyst", group_key |-> "group_1"]
      [] node = "economic_indicators_node" ->
           [agent_name |-> "economic_indicators_expert", group_key |-> "group_1"]
      [] node = "financial_statement_node" ->
           [agent_name |-> "financial_statement_analyst", group_key |-> "group_2"]
      [] node = "financial_ratio_node" ->
           [agent_name |-> "financial_ratio_expert", group_key |-> "group_2"]
      [] node = "valuation_node" ->
           [agent_name |-> "valuation_expert", group_key |-> "group_2"]
      [] node = "cash_flow_node" ->
           [agent_name |-> "cash_flow_analyst", group_key |-> "group_2"]
      [] node = "capital_structure_node" ->
           [agent_name |-> "capital_structure_expert", group_key |-> "group_2"]
      [] node = "banking_finance_node" ->
           [agent_name |-> "banking_finance_expert", group_key |-> "group_3"]
      [] node = "real_estate_node" ->
           [agent_name |-> "real_estate_expert", group_key |-> "group_3"]
      [] node = "consumer_goods_node" ->
           [agent_name |-> "consumer_goods_expert", group_key |-> "group_3"]
      [] node = "industrial_node" ->
           [agent_name |-> "industrial_expert", group_key |-> "group_3"]
      [] node = "technology_node" ->
           [agent_name |-> "technology_expert", group_key |-> "group_3"]
      [] node = "global_markets_node" ->
           [agent_name |-> "global_markets_expert", group_key |-> "group_4"]
      [] node = "geopolitical_risk_node" ->
           [agent_name |-> "geopolitical_risk_analyst", group_key |-> "group_4"]
      [] node = "regulatory_framework_node" ->
           [agent_name |-> "regulatory_framework_expert", group_key |-> "group_4"]
      [] node = "monetary_policy_node" ->
           [agent_name |-> "monetary_policy_expert", group_key |-> "group_4"]
      [] node = "demographic_trends_node" ->
           [agent_name |-> "demographic_trends_expert", group_key |-> "group_4"]
      [] node = "game_theory_node" ->
           [agent_name |-> "game_theory_strategist", group_key |-> "group_5"]
      [] node = "risk_management_node" ->
           [agent_name |-> "risk_management_expert", group_key |-> "group_5"]
      [] node = "portfolio_optimization_node" ->
           [agent_name |-> "portfolio_optimization_expert", group_key |-> "group_5"]
      [] node = "asset_allocation_node" ->
           [agent_name |-> "asset_allocation_strategist", group_key |-> "group_5"]
      [] node = "investment_psychology_node" ->
           [agent_name |-> "investment_psychology_expert", group_key |-> "group_5"]

\* the expert_nodes list each group graph is built from
GraphExperts ==
    [g \in Groups |->
        CASE g = 1 -> <<"market_analyst_node",
                        "technical_analyst_node",
                        "fundamental_analyst_node",
                        "sentiment_analyst_node",
                        "economic_indicators_node">>
          [] g = 2 -> <<"financial_statement_node",
                        "financial_ratio_node",
                        "valuation_node",
                        "cash_flow_node",
                        "capital_structure_node">>
          [] g = 3 -> <<"banking_finance_node",
                        "real_estate_node",
                        "consumer_goods_node",
                        "industrial_node",
                        "technology_node">>
          [] g = 4 -> <<"global_markets_node",
                        "geopolitical_risk_node",
                        "regulatory_framework_node",
                        "monetary_policy_node",
                        "demographic_trends_node">>
          [] g = 5 -> <<"game_theory_node",
                        "risk_management_node",
                        "portfolio_optimization_node",
                        "asset_allocation_node",
                        "investment_psychology_node">>]

\* the summarizer_node each group graph is built with
GraphSummarizer ==
    [g \in Groups |->
        CASE g = 1 -> "market_analysis_group_summarizer"
          [] g = 2 -> "financial_analysis_group_summarizer"
          [] g = 3 -> "sectoral_analysis_group_summarizer"
          [] g = 4 -> "external_factors_group_summarizer"
          [] g = 5 -> "strategy_group_summarizer"]

\* create_group_summarizer(group_name, expert_names, group_key): what each
\* summarizer was created with
Summarizer(node) ==
    CASE node = "market_analysis_group_summarizer" ->
           [group_name   |-> "Phân tích Thị trường (Market Analysis)",
            expert_names |-> <<"market_analyst",
                               "technical_analyst",
                               "fundamental_analyst",
                               "sentiment_analyst",
                               "economic_indicators_expert">>,
            group_key    |-> "group_1"]
      [] node = "financial_analysis_group_summarizer" ->
           [group_name   |-> "Phân tích Tài chính (Financial Analysis)",
            expert_names |-> <<"financial_statement_analyst",
                               "financial_ratio_expert",
                               "valuation_expert",
                               "cash_flow_analyst",
                               "capital_structure_expert">>,
            group_key    |-> "group_2"]
      [] node = "sectoral_analysis_group_summarizer" ->
           [group_name   |-> "Phân tích Ngành (Sectoral Analysis)",
            expert_names |-> <<"banking_finance_expert",
                               "real_estate_expert",
                               "consumer_goods_expert",
                               "industrial_expert",
                               "technology_expert">>,
            group_key    |-> "group_3"]
      [] node = "external_factors_group_summarizer" ->
           [group_name   |-> "Yếu tố Bên ngoài (External Factors)",
            expert_names |-> <<"global_markets_expert",
                               "geopolitical_risk_analyst",
                               "regulatory_framework_expert",
                               "monetary_policy_expert",
                               "demographic_trends_expert">>,
            group_key    |-> "group_4"]
      [] node = "strategy_group_summarizer" ->
           [group_name   |-> "Lập chiến lược (Strategy)",
            expert_names |-> <<"game_theory_strategist",
                               "risk_management_expert",
                               "portfolio_optimization_expert",
                               "asset_allocation_strategist",
                               "investment_psychology_expert">>,
            group_key    |-> "group_5"]

Range(s) == {s[i] : i \in DOMAIN s}

\* f"{agent_name}_search"
SearchKey(name) == name \o "_search"

\* state.get(key, default)
Get(m, k, d) == IF k \in DOMAIN m THEN m[k] ELSE d

EmptyDict == <<>>

----------------------------------------------------------------------------
(* The collaborators: credential, model, search, artifact store *)

Queries == {"q1", "q2"}

QueryLists == UNION {[1..n -> Queries] : n \in 0..MaxQueries}

\* What the model answers to the query-generation prompt, by what the
\* extraction code can tell apart: the text is a JSON object with a "queries"
\* list (bare, or inside a ```json or a ``` fence), a JSON object without
\* "queries", valid JSON that is not an object, or not JSON at all. "queries"
\* is the list of the JSON object; "lines" are the quoted-looking lines of
\* the text, stripped, in order.
QueryResponses ==
    {[form |-> f, queries |-> qs, lines |-> <<>>] :
        f \in {"json", "fenced"}, qs \in QueryLists}
    \cup {[form |-> "no_queries", queries |-> <<>>, lines |-> <<>>]}
    \cup {[form |-> f, queries |-> <<>>, lines |-> ls] :
        f \in {"not_object", "invalid"}, ls \in QueryLists}

\* what simple_search does with one query: raises, or returns a list of
\* records; a "malformed" list holds a value that is no mapping
SearchOutcomes == {"raise", "hits", "malformed"}

LlmCalls == {"queries", "analysis", "report"}

Envs ==
    [api_key    : BOOLEAN,
     llm_raise  : SUBSET LlmCalls,
     response   : QueryResponses,
     search     : [Queries -> SearchOutcomes],
     store_fail : BOOLEAN]

LlmError   == "model call failed"
SearchError == "search failed"
StoreError == "cannot write file"
AttrError  == "'str' object has no attribute 'get'"
NoApiKey   == "No API key found for OpenAI"

Ok(v)     == [raised |-> FALSE, msg |-> "", val |-> v]
Raise(m)  == [raised |-> TRUE, msg |-> m, val |-> <<>>]

\* the text the model returns for an analysis, a summary or the final report
AnalysisText(name) == "analysis by " \o name
SummaryText(g)     == "summary of " \o GroupKey(g)
ReportText         == "investment strategy"

\* simple_search(query)
simple_search(e, q) ==
    CASE e.search[q] = "raise"     -> Raise(SearchError)
      [] e.search[q] = "hits"      -> Ok(<<[title |-> q, link |-> "http://" \o q],
                                           [snippet |-> q]>>)
      [] e.search[q] = "malformed" -> Ok(<<[not_a_mapping |-> q]>>)

\* llm.invoke(messages), by the prompt it is given
llm_invoke(e, call, content) ==
    IF call \in e.llm_raise THEN Raise(LlmError) ELSE Ok(content)

\* open(...).write(...) of one artifact
write_file(e) == IF e.store_fail THEN Raise(StoreError) ELSE Ok(<<>>)

----------------------------------------------------------------------------
(* agent_nodes.py: the steps of an expert task *)

\* get_model(): the client, or ValueError when OPENAI_API_KEY is not set
get_model(e) == IF e.api_key THEN Ok("gpt-4o-mini") ELSE Raise(NoApiKey)

FallbackLimit == 5

Take(s, n) == IF Len(s) <= n THEN s ELSE SubSeq(s, 1, n)

\* the try block of generate_search_queries: json.loads of the (unfenced)
\* text, then queries_data.get("queries", [])
parse_queries(r) ==
    CASE r.form \in {"json", "fenced"} -> Ok(r.queries)
      [] r.form = "no_queries" -> Ok(<<>>)
      [] r.form = "not_object" -> Raise("'list' object has no attribute 'get'")
      [] r.form = "invalid"    -> Raise("Expecting value")

\* generate_search_queries without its except clause: a response that does
\* not parse ends the function with the parser's exception
generate_search_queries_no_fallback(e, question, name) ==
    LET response == llm_invoke(e, "queries", e.response)
        parsed   == parse_queries(response.val)
    IN  IF response.raised THEN Raise(response.msg)
        ELSE IF ~parsed.raised THEN Ok(parsed.val)
        ELSE Raise(parsed.msg)

\* generate_search_queries(llm, system_prompt, question, expert_name): the
\* model call is outside the try block; a parse failure falls back to the
\* quoted-looking lines, at most 5 of them
generate_search_queries(e, question, name) ==
    LET response == llm_invoke(e, "queries", e.response)
        parsed   == parse_queries(response.val)
    IN  IF response.raised THEN Raise(response.msg)
        ELSE IF ~parsed.raised THEN Ok(parsed.val)
        ELSE Ok(Take(response.val.lines, FallbackLimit))

\* a loop that puts each query's results in front of the earlier ones
RECURSIVE search_each_newest_first(_, _)
search_each_newest_first(e, queries) ==
    IF queries = <<>> THEN <<>>
    ELSE LET results == simple_search(e, Head(queries))
         IN  search_each_newest_first(e, Tail(queries))
                \o (IF results.raised THEN <<>> ELSE results.val)

\* perform_searches(queries, expert_name): the results of the queries whose
\* search did not raise, concatenated in query order; the except clause
\* inside the loop keeps a failing query from ending the loop
RECURSIVE search_each(_, _)
search_each(e, queries) ==
    IF queries = <<>> THEN <<>>
    ELSE LET results == simple_search(e, Head(queries))
         IN  (IF results.raised THEN <<>> ELSE results.val)
                \o search_each(e, Tail(queries))

\* perform_searches without the try inside the loop: the first failing
\* search ends the function with its exception
RECURSIVE perform_searches_no_try(_, _)
perform_searches_no_try(e, queries) ==
    IF queries = <<>> THEN Ok(<<>>)
    ELSE LET results == simple_search(e, Head(queries))
             rest    == perform_searches_no_try(e, Tail(queries))
         IN  IF results.raised THEN Raise(results.msg)
             ELSE IF rest.raised THEN rest
             ELSE Ok(results.val \o rest.val)

perform_searches(e, queries) == Ok(search_each(e, queries))

\* compile_search_results(results): "Result i" with title, link and snippet,
\* each defaulted; result.get raises on a value that is no mapping
compile_search_results(results) ==
    IF \E i \in DOMAIN results : "not_a_mapping" \in DOMAIN results[i]
    THEN Raise(AttrError)
    ELSE Ok([i \in DOMAIN results |->
                [result  |-> i,
                 title   |-> Get(results[i], "title", "No title"),
                 link    |-> Get(results[i], "link", "No link"),
                 snippet |-> Get(results[i], "snippet", "No snippet")]])

\* analyze_results(llm, system_prompt, question, search_results, expert_name)
analyze_results(e, question, compiled, name) ==
    LET response == llm_invoke(e, "analysis", AnalysisText(name))
    IN  IF response.raised THEN Raise(response.msg) ELSE Ok(response.val)

\* save_expert_analysis(expert_name, analysis, question)
save_expert_analysis(e, name, analysis, question) == write_file(e)

\* an expert that tells the model, in its analysis request, that the state
\* holds group summaries
expert_requests_with_summaries(e, g, i, st) ==
    LET name     == ExpertNodes[g][i]
        question == Get(st, QuestionKey(g), "")
        seen     == IF "group_summaries" \in DOMAIN st
                    THEN " (group summaries attached)" ELSE ""
        llm      == get_model(e)
        queries  == generate_search_queries(e, question, name)
        results  == perform_searches(e, queries.val)
        compiled == compile_search_results(results.val)
        q_req    == <<[to |-> "llm", call |-> "queries", question |-> question,
                       name |-> name, n_results |-> 0]>>
        s_req    == [k \in DOMAIN queries.val |->
                       [to |-> "search", call |-> queries.val[k],
                        question |-> question, name |-> name, n_results |-> 0]]
        a_req    == <<[to |-> "llm", call |-> "analysis",
                       question |-> question \o seen,
                       name |-> name, n_results |-> Len(compiled.val)]>>
    IN  IF llm.raised THEN <<>>
        ELSE IF queries.raised THEN q_req
        ELSE IF results.raised \/ compiled.raised THEN q_req \o s_req
        ELSE q_req \o s_req \o a_req

\* the requests an expert task sends to the model and to the search
\* collaborator, in order, up to the step that raised
expert_requests(e, g, i, st) ==
    LET name     == ExpertNodes[g][i]
        question == Get(st, QuestionKey(g), "")
        llm      == get_model(e)
        queries  == generate_search_queries(e, question, name)
        results  == perform_searches(e, queries.val)
        compiled == compile_search_results(results.val)
        q_req    == <<[to |-> "llm", call |-> "queries", question |-> question,
                       name |-> name, n_results |-> 0]>>
        s_req    == [k \in DOMAIN queries.val |->
                       [to |-> "search", call |-> queries.val[k],
                        question |-> question, name |-> name, n_results |-> 0]]
        a_req    == <<[to |-> "llm", call |-> "analysis", question |-> question,
                       name |-> name, n_results |-> Len(compiled.val)]>>
    IN  IF llm.raised THEN <<>>
        ELSE IF queries.raised THEN q_req
        ELSE IF results.raised \/ compiled.raised THEN q_req \o s_req
        ELSE q_req \o s_req \o a_req

\* the body of the try block of expert_analysis: the value returned, or the
\* first exception raised
expert_try(e, g, i, st) ==
    LET name     == ExpertNodes[g][i]
        question == Get(st, QuestionKey(g), "")
        llm      == get_model(e)
        queries  == generate_search_queries(e, question, name)
        results  == perform_searches(e, queries.val)
        compiled == compile_search_results(results.val)
        analysis == analyze_results(e, question, compiled.val, name)
        saved    == save_expert_analysis(e, name, analysis.val, question)
    IN  IF llm.raised THEN Raise(llm.msg)
        ELSE IF queries.raised THEN Raise(queries.msg)
        ELSE IF results.raised THEN Raise(results.msg)
        ELSE IF compiled.raised THEN Raise(compiled.msg)
        ELSE IF analysis.raised THEN Raise(analysis.msg)
        ELSE IF saved.raised THEN Raise(saved.msg)
        ELSE Ok((GroupKey(g) :> (name :> analysis.val))
                @@ ("search_results" :>
                      (SearchKey(name) :> [queries |-> queries.val,
                                           results |-> results.val])))

\* expert_analysis without its except clause
expert_analysis_no_except(e, g, i, st) == expert_try(e, g, i, st)

\* expert_analysis whose except clause reports the error in the group entry
\* alone and returns an empty search entry
expert_analysis_empty_search(e, g, i, st) ==
    LET name == ExpertNodes[g][i]
        body == expert_try(e, g, i, st)
    IN  IF ~body.raised THEN body
        ELSE Ok((GroupKey(g) :> (name :> ("Error in analysis: " \o body.msg)))
                @@ ("search_results" :>
                      (SearchKey(name) :> [queries |-> <<>>, results |-> <<>>])))

\* expert_analysis(state) of create_expert_agent(system_prompt, agent_name,
\* group_key): the try block, and the except Exception handler
expert_analysis(e, g, i, st) ==
    LET name == ExpertNodes[g][i]
        body == expert_try(e, g, i, st)
    IN  IF ~body.raised THEN body
        ELSE Ok((GroupKey(g) :> (name :> ("Error in analysis: " \o body.msg)))
                @@ ("search_results" :>
                      (SearchKey(name) :> [error |-> body.msg])))

----------------------------------------------------------------------------
(* agent_nodes.py: the group summarizer and the final synthesizer *)

\* a value that is no dict where the code expects one (.items() raises)
NotAMapping == [not_a_mapping |-> "x"]

\* the "Search queries from <expert>" sections of the summary prompt: the
\* experts of expert_names whose search entry is present and has "queries"
search_info(g, st) ==
    LET sr == Get(st, "search_results", EmptyDict)
    IN  {n \in Range(SummarizerExperts[g]) :
            /\ SearchKey(n) \in DOMAIN sr
            /\ "queries" \in DOMAIN sr[SearchKey(n)]}

\* what the summarizer puts into its prompt: the analyses it found under
\* group_key (none when the key is absent), the experts whose queries it
\* lists, and the question
summary_prompt(g, st) ==
    [analyses |-> Get(st, GroupKey(g), EmptyDict),
     queries  |-> search_info(g, st),
     question |-> Get(st, QuestionKey(g), "No question provided")]

\* the body of the try block of summarize_group
summarize_try(e, g, st) ==
    LET llm      == get_model(e)
        response == llm_invoke(e, "report", SummaryText(g))
        saved    == write_file(e)
    IN  IF  /\ GroupKey(g) \in DOMAIN st
            /\ "not_a_mapping" \in DOMAIN st[GroupKey(g)]
        THEN Raise("'str' object has no attribute 'items'")
        ELSE IF llm.raised THEN Raise(llm.msg)
        ELSE IF response.raised THEN Raise(response.msg)
        ELSE IF saved.raised THEN Raise(saved.msg)
        ELSE Ok("group_summaries" :> (GroupName(g) :> response.val))

\* summarize_group without its except clause
summarize_group_no_except(e, g, st) == summarize_try(e, g, st)

\* summarize_group(state) of create_group_summarizer(group_name,
\* expert_names, group_key): the try block, and the except Exception handler
summarize_group(e, g, st) ==
    LET body == summarize_try(e, g, st)
    IN  IF ~body.raised THEN body
        ELSE Ok("group_summaries" :>
                    (GroupName(g) :> ("Error in summary: " \o body.msg)))

\* the question final_synthesizer uses: state["question"], else the first
\* non-empty question_i for i = 1..5, else the placeholder
RECURSIVE first_question_copy(_, _)
first_question_copy(st, i) ==
    IF i > NumGroups THEN ""
    ELSE IF QuestionKey(i) \in DOMAIN st /\ st[QuestionKey(i)] # ""
         THEN st[QuestionKey(i)]
         ELSE first_question_copy(st, i + 1)

\* a final synthesizer that looks at the question copies first and at the
\* question field only when none of them is set
final_question_prefers_copies(st) ==
    LET copy     == first_question_copy(st, 1)
        question == IF copy # "" THEN copy ELSE Get(st, "question", "")
    IN  IF question # "" THEN question ELSE "No question provided"

final_question(st) ==
    LET question == Get(st, "question", "")
        copy     == IF question # "" THEN question ELSE first_question_copy(st, 1)
    IN  IF copy # "" THEN copy ELSE "No question provided"

\* the body of the try block of final_synthesizer
final_try(e, st) ==
    LET llm      == get_model(e)
        response == llm_invoke(e, "report", ReportText)
        saved    == write_file(e)
    IN  IF "not_a_mapping" \in DOMAIN Get(st, "group_summaries", EmptyDict)
        THEN Raise("'str' object has no attribute 'items'")
        ELSE IF llm.raised THEN Raise(llm.msg)
        ELSE IF response.raised THEN Raise(response.msg)
        ELSE IF saved.raised THEN Raise(saved.msg)
        ELSE Ok("final_report" :> response.val)

\* the request final_synthesizer sends to the model: the question it settled
\* on and the group summaries it found; none when reading the summaries or
\* get_model raised
final_requests(e, st) ==
    LET summaries == Get(st, "group_summaries", EmptyDict)
    IN  IF "not_a_mapping" \in DOMAIN summaries \/ get_model(e).raised THEN <<>>
        ELSE <<[to |-> "llm", call |-> "report", question |-> final_question(st),
                name |-> "final_synthesis",
                n_results |-> Cardinality(DOMAIN summaries)]>>

\* final_synthesizer(state): the try block, and the except Exception handler
final_synthesizer(e, st) ==
    LET body == final_try(e, st)
    IN  IF ~body.raised THEN body
        ELSE Ok("final_report" :> ("Error in final synthesis: " \o body.msg))

----------------------------------------------------------------------------
(* group_agents.py: the nodes create_main_graph defines itself *)

\* an initializer that also writes the question field back
initializer_writes_question(st) ==
    LET original_question == Get(st, "question", "")
    IN  Ok([k \in {QuestionKey(g) : g \in Groups} \cup {"question"} |->
                original_question])

\* initializer(state)
initializer(st) ==
    LET original_question == Get(st, "question", "")
    IN  Ok([k \in {QuestionKey(g) : g \in Groups} |-> original_question])

\* a join node that hands the state it was given back as its update
join_node_returns_state(st) == Ok(st)

\* join_node(state)
join_node(st) == Ok(EmptyDict)

----------------------------------------------------------------------------
(* agent_nodes.py, AgentState: the channels of the graphs' state *)

StateKeys ==
    {"question", "analyses", "group_summaries", "final_report", "search_results"}
        \cup {QuestionKey(g) : g \in Groups} \cup {GroupKey(g) : g \in Groups}

\* the metadata each field of AgentState is annotated with: the string
\* "merge", except final_report, which has none
Annotation(key) == IF key = "final_report" THEN "" ELSE "merge"

\* whether the metadata of an annotation is a callable of two arguments,
\* which is what StateGraph takes for a reducer: a string is not
IsReducer(meta) == meta \notin {"", "merge"}

\* StateGraph gives a field a reducer only when the metadata of its
\* annotation is a callable; the string "merge" is none, so every field of
\* AgentState is a last-value channel: a write replaces the value, and the
\* channel takes one write per superstep
Channel(key) ==
    IF IsReducer(Annotation(key)) THEN "BinaryOperatorAggregate" ELSE "LastValue"

InvalidUpdate == "Can receive only one value per step. Use an Annotated key to handle multiple values."

\* the updates of one superstep that write key, as a set of writers
Writers(ws, key) == {n \in DOMAIN ws : key \in DOMAIN ws[n]}

\* LastValue.update: the value of channel key after the writes ws of one
\* superstep, or InvalidUpdateError when it is written more than once
update_channel(st, ws, key) ==
    LET writers == Writers(ws, key)
    IN  IF Channel(key) = "LastValue" /\ Cardinality(writers) > 1
        THEN Raise(InvalidUpdate)
        ELSE Ok(ws[CHOOSE n \in writers : TRUE][key])

\* apply_writes: every channel written in the superstep is updated; the
\* other channels keep their value
apply_writes(st, ws) ==
    LET written == UNION {DOMAIN ws[n] : n \in DOMAIN ws}
        failed  == {k \in written : update_channel(st, ws, k).raised}
    IN  IF failed # {} THEN Raise(InvalidUpdate)
        ELSE Ok([k \in DOMAIN st \cup written |->
                    IF k \in written THEN update_channel(st, ws, k).val
                    ELSE st[k]])

----------------------------------------------------------------------------
(* group_agents.py: the group graphs and the main graph *)

\* create_expert_group_graph: expert_0 .. expert_{n-1}, then the summarizer;
\* node k of group g is expert k for k <= n and the summarizer for k = n + 1
\* the summarizer's position when START were wired to expert_0 even for an
\* empty expert list
SummarizerIndex_after_expert_0(g) ==
    IF Len(expert_nodes[g]) = 0 THEN 2 ELSE Len(expert_nodes[g]) + 1

NumExperts(g) == Len(expert_nodes[g])

SummarizerIndex(g) == NumExperts(g) + 1

GroupNode(g) ==
    CASE g = 1 -> "market_analysis_group" [] g = 2 -> "financial_analysis_group"
      [] g = 3 -> "sectoral_analysis_group" [] g = 4 -> "external_factors_group"
      [] g = 5 -> "strategy_group"

GroupNodes == {GroupNode(g) : g \in Groups}

GroupOf(n) == CHOOSE g \in Groups : GroupNode(g) = n

MainNodes == {"initializer", "join", "final_synthesis"} \cup GroupNodes

\* create_main_graph: the add_edge calls
MainEdges ==
    {<<"START", "initializer">>,
     <<"initializer", "market_analysis_group">>,
     <<"initializer", "financial_analysis_group">>,
     <<"initializer", "sectoral_analysis_group">>,
     <<"initializer", "external_factors_group">>,
     <<"market_analysis_group", "join">>,
     <<"financial_analysis_group", "join">>,
     <<"sectoral_analysis_group", "join">>,
     <<"external_factors_group", "join">>,
     <<"join", "strategy_group">>,
     <<"strategy_group", "final_synthesis">>,
     <<"final_synthesis", "END">>}

\* each add_edge(a, b) is a trigger of its own: b runs in the superstep
\* after one in which any of its predecessors ran
Triggered(ran) == {n \in MainNodes : \E a \in ran : <<a, n>> \in MainEdges}

\* the function a plain node of the main graph runs
node_function(e, n, st) ==
    CASE n = "initializer"     -> initializer(st)
      [] n = "join"            -> join_node(st)
      [] n = "final_synthesis" -> final_synthesizer(e, st)

IdleSub == [st |-> EmptyDict, pc |-> 0, phase |-> "idle"]

----------------------------------------------------------------------------
(* The run of main_graph.invoke({"question": q}) *)

Questions == {"", "Should I invest in Vietnamese banking stocks?"}

DefaultResponse == [form |-> "json", queries |-> <<"q1", "q2">>, lines |-> <<>>]

\* how many of the model, the search API and the artifact store fail
Faults(e) ==
    (IF e.llm_raise # {} THEN 1 ELSE 0)
        + (IF \E q \in Queries : e.search[q] # "hits" THEN 1 ELSE 0)
        + (IF e.store_fail THEN 1 ELSE 0)

\* the collaborator behaviours a whole run is explored under: one of the
\* model, the search API and the artifact store failing on every call, or none
RunEnvs ==
    {e \in Envs :
        /\ e.api_key
        /\ e.response = DefaultResponse
        /\ e.llm_raise \in {{}, LlmCalls}
        /\ \E o \in {"hits", "raise"} : \A q \in Queries : e.search[q] = o
        /\ Faults(e) <= 1}

NoResult == [node |-> "none", g |-> 0, i |-> 0, out |-> Ok(EmptyDict), requests |-> <<>>]

\* invoke: the input is written to the channels and START triggers its
\* successors
Init ==
    /\ env \in RunEnvs
    /\ \E q \in Questions : state = ("question" :> q)
    /\ active = Triggered({"START"})
    /\ task = [n \in Triggered({"START"}) |-> "pending"]
    /\ writes = EmptyDict
    /\ expert_nodes = ExpertNodes
    /\ sub = [g \in Groups |-> IdleSub]
    /\ status = "running"
    /\ error = ""
    /\ res = NoResult

\* a task of the superstep starts: it reads the state as of the end of the
\* previous superstep; a group graph receives that state as its input
StartTask(n) ==
    /\ status = "running"
    /\ n \in active
    /\ task[n] = "pending"
    /\ task' = [task EXCEPT ![n] = "running"]
    /\ sub' = IF n \in GroupNodes
              THEN [sub EXCEPT ![GroupOf(n)] =
                        [st |-> state, pc |-> 1, phase |-> "ready"]]
              ELSE sub
    /\ UNCHANGED <<env, expert_nodes, state, active, writes, status, error, res>>

\* a plain node returns: its update waits for the end of the superstep; an
\* exception it raises leaves invoke
FinishTask(n) ==
    /\ status = "running"
    /\ n \in active \ GroupNodes
    /\ task[n] = "running"
    /\ LET r == node_function(env, n, state)
       IN  IF r.raised
           THEN /\ status' = "raised"
                /\ error' = r.msg
                /\ UNCHANGED <<task, writes>>
           ELSE /\ task' = [task EXCEPT ![n] = "done"]
                /\ writes' = (n :> r.val) @@ writes
                /\ UNCHANGED <<status, error>>
    /\ UNCHANGED <<env, expert_nodes, state, active, sub, res>>

\* the return of node k of group g on the group graph's state
sub_function(e, g, k, st) ==
    IF k <= NumExperts(g) THEN expert_analysis(e, g, k, st)
    ELSE summarize_group(e, g, st)

\* expert_{k-1} of a group graph starts
ExpertStart(g) ==
    /\ status = "running"
    /\ sub[g].phase = "ready"
    /\ sub[g].pc <= NumExperts(g)
    /\ sub' = [sub EXCEPT ![g].phase = "running"]
    /\ UNCHANGED <<env, expert_nodes, state, active, task, writes, status, error, res>>

\* expert_{k-1} returns and the group graph's superstep ends: its update is
\* applied to the group graph's state and the next node is triggered
ExpertFinish(g) ==
    /\ status = "running"
    /\ sub[g].phase = "running"
    /\ sub[g].pc <= NumExperts(g)
    /\ LET r == sub_function(env, g, sub[g].pc, sub[g].st)
           w == apply_writes(sub[g].st, (sub[g].pc :> r.val))
       IN  IF r.raised \/ w.raised
           THEN /\ status' = "raised"
                /\ error' = IF r.raised THEN r.msg ELSE w.msg
                /\ UNCHANGED sub
           ELSE /\ sub' = [sub EXCEPT ![g] =
                             [st |-> w.val, pc |-> sub[g].pc + 1, phase |-> "ready"]]
                /\ UNCHANGED <<status, error>>
    /\ UNCHANGED <<env, expert_nodes, state, active, task, writes, res>>

\* the summarizer of a group graph starts
SummarizerStart(g) ==
    /\ status = "running"
    /\ sub[g].phase = "ready"
    /\ sub[g].pc = SummarizerIndex(g)
    /\ sub' = [sub EXCEPT ![g].phase = "running"]
    /\ UNCHANGED <<env, expert_nodes, state, active, task, writes, status, error, res>>

\* the summarizer returns, the group graph reaches END and returns the
\* values of all its channels to the main graph as the group node's update
SummarizerFinish(g) ==
    /\ status = "running"
    /\ sub[g].phase = "running"
    /\ sub[g].pc = SummarizerIndex(g)
    /\ LET r == sub_function(env, g, sub[g].pc, sub[g].st)
           w == apply_writes(sub[g].st, (sub[g].pc :> r.val))
       IN  IF r.raised \/ w.raised
           THEN /\ status' = "raised"
                /\ error' = IF r.raised THEN r.msg ELSE w.msg
                /\ UNCHANGED <<sub, task, writes>>
           ELSE /\ sub' = [sub EXCEPT ![g] =
                             [st |-> w.val, pc |-> sub[g].pc + 1, phase |-> "ended"]]
                /\ task' = [task EXCEPT ![GroupNode(g)] = "done"]
                /\ writes' = (GroupNode(g) :> w.val) @@ writes
                /\ UNCHANGED <<status, error>>
    /\ UNCHANGED <<env, expert_nodes, state, active, res>>

\* the superstep ends when all its tasks have returned: their updates are
\* applied channel by channel, and the nodes they trigger form the next
\* superstep; with none left invoke returns
EndSuperstep ==
    /\ status = "running"
    /\ active # {}
    /\ \A n \in active : task[n] = "done"
    /\ LET w    == apply_writes(state, writes)
           next == Triggered(active)
       IN  IF w.raised
           THEN /\ status' = "raised"
                /\ error' = w.msg
                /\ UNCHANGED <<state, active, task, writes>>
           ELSE /\ state' = w.val
                /\ active' = next
                /\ task' = [n \in next |-> "pending"]
                /\ writes' = EmptyDict
                /\ status' = IF next = {} THEN "done" ELSE "running"
                /\ error' = ""
    /\ UNCHANGED <<env, expert_nodes, sub, res>>

Next ==
    \/ \E n \in MainNodes : StartTask(n)
    \/ \E n \in MainNodes : FinishTask(n)
    \/ \E g \in Groups : ExpertStart(g)
    \/ \E g \in Groups : ExpertFinish(g)
    \/ \E g \in Groups : SummarizerStart(g)
    \/ \E g \in Groups : SummarizerFinish(g)
    \/ EndSuperstep

Spec == Init /\ [][Next]_vars

----------------------------------------------------------------------------
(* The node functions called directly, as the graphs call them: one call on *)
(* one input state under one behaviour of the collaborators                 *)

AfterInitializer(q) == ("question" :> q) @@ initializer("question" :> q).val

\* the 25 expert returns and the group summaries, as five finished group
\* tasks would hold them
AllAnalyses(g) ==
    [n \in Range(ExpertNodes[g]) |->
        IF n = ExpertNodes[g][1] THEN "Error in analysis: " \o LlmError
        ELSE AnalysisText(n)]

AllSearches ==
    [k \in {SearchKey(n) : n \in UNION {Range(ExpertNodes[g]) : g \in Groups}} |->
        IF \E g \in Groups : k = SearchKey(ExpertNodes[g][1])
        THEN [error |-> LlmError]
        ELSE [queries |-> <<"q1">>, results |-> <<>>]]

Populated(q) ==
    AfterInitializer(q)
        @@ [k \in {GroupKey(g) : g \in Groups} |->
              AllAnalyses(CHOOSE g \in Groups : GroupKey(g) = k)]
        @@ ("search_results" :> AllSearches)
        @@ ("group_summaries" :>
              [n \in {GroupName(g) : g \in Groups} |-> "summary"])

Malformed(q) ==
    AfterInitializer(q)
        @@ [k \in {GroupKey(g) : g \in Groups} |-> NotAMapping]
        @@ ("group_summaries" :> NotAMapping)

\* the states a node function is called on
TaskStates ==
    {EmptyDict}
        \cup {("question" :> q) : q \in Questions}
        \cup {AfterInitializer(q) : q \in Questions}
        \cup {Populated(q) : q \in Questions}
        \cup {Malformed(q) : q \in Questions}

InitTask ==
    /\ env \in Envs
    /\ state \in TaskStates
    /\ active = {}
    /\ task = EmptyDict
    /\ writes = EmptyDict
    /\ expert_nodes = ExpertNodes
    /\ sub = [g \in Groups |-> IdleSub]
    /\ status = "running"
    /\ error = ""
    /\ res = NoResult

\* the return of a node function, or the exception that leaves it
Call(node, g, i, out, requests) ==
    /\ res = NoResult
    /\ res' = [node |-> node, g |-> g, i |-> i, out |-> out, requests |-> requests]
    /\ UNCHANGED <<env, expert_nodes, state, active, task, writes, sub, status, error>>

CallExpert(g, i) ==
    Call("expert", g, i, expert_analysis(env, g, i, state),
         expert_requests(env, g, i, state))

CallSummarizer(g) ==
    Call("summarizer", g, 0, summarize_group(env, g, state), <<>>)

CallFinal ==
    Call("final_synthesis", 0, 0, final_synthesizer(env, state),
         final_requests(env, state))

CallInitializer ==
    Call("initializer", 0, 0, initializer(state), <<>>)

CallJoin ==
    Call("join", 0, 0, join_node(state), <<>>)

NextTask ==
    \/ \E g \in Groups : \E i \in 1..NumExperts(g) : CallExpert(g, i)
    \/ \E g \in Groups : CallSummarizer(g)
    \/ CallFinal
    \/ CallInitializer
    \/ CallJoin

SpecTask == InitTask /\ [][NextTask]_vars

----------------------------------------------------------------------------
(* final_synthesizer called on every combination of the question fields *)

QuestionTexts == Questions \cup {"Which sectors will lead the VN-Index?"}

QuestionFields == {"question"} \cup {QuestionKey(g) : g \in Groups}

\* the states that hold any of question, question_1..question_5, each empty
\* or not
QuestionStates ==
    UNION {[present -> QuestionTexts] : present \in SUBSET QuestionFields}

InitFinal ==
    /\ env \in RunEnvs
    /\ state \in QuestionStates
    /\ active = {}
    /\ task = EmptyDict
    /\ writes = EmptyDict
    /\ expert_nodes = ExpertNodes
    /\ sub = [g \in Groups |-> IdleSub]
    /\ status = "running"
    /\ error = ""
    /\ res = NoResult

NextFinal == CallFinal

SpecFinal == InitFinal /\ [][NextFinal]_vars

----------------------------------------------------------------------------
(* The expert functions called on responses that do not parse *)

\* the texts that are no JSON object, with up to MaxLines quoted-looking lines
UnparsedResponses ==
    {[form |-> f, queries |-> <<>>, lines |-> ls] :
        f \in {"not_object", "invalid"},
        ls \in UNION {[1..n -> Queries] : n \in 0..MaxLines}}

InitQueries ==
    /\ env \in [api_key    : {TRUE},
                llm_raise  : {{}},
                response   : UnparsedResponses,
                search     : [Queries -> SearchOutcomes],
                store_fail : {FALSE}]
    /\ state \in {AfterInitializer(q) : q \in Questions}
    /\ active = {}
    /\ task = EmptyDict
    /\ writes = EmptyDict
    /\ expert_nodes = ExpertNodes
    /\ sub = [g \in Groups |-> IdleSub]
    /\ status = "running"
    /\ error = ""
    /\ res = NoResult

NextQueries == \E g \in Groups : \E i \in 1..NumExperts(g) : CallExpert(g, i)

SpecQueries == InitQueries /\ [][NextQueries]_vars

----------------------------------------------------------------------------
(* One group graph invoked by itself, built from the first experts of its *)
(* list, or from none                                                      *)

\* the longest expert list a group graph is built from here
MaxExperts == 2

InitGroup ==
    /\ env \in RunEnvs
    /\ \E q \in Questions : state = AfterInitializer(q)
    /\ \E g \in Groups : \E n \in 0..MaxExperts :
          /\ expert_nodes = [h \in Groups |->
                                IF h = g THEN Take(ExpertNodes[h], n)
                                ELSE ExpertNodes[h]]
          /\ sub = [h \in Groups |->
                       IF h = g THEN [st |-> state, pc |-> 1, phase |-> "ready"]
                       ELSE IdleSub]
    /\ active = {}
    /\ task = [n \in GroupNodes |-> "running"]
    /\ writes = EmptyDict
    /\ status = "running"
    /\ error = ""
    /\ res = NoResult

NextGroup ==
    \/ \E g \in Groups : ExpertStart(g)
    \/ \E g \in Groups : ExpertFinish(g)
    \/ \E g \in Groups : SummarizerStart(g)
    \/ \E g \in Groups : SummarizerFinish(g)

SpecGroup == InitGroup /\ [][NextGroup]_vars

----------------------------------------------------------------------------
(* Properties *)

ExpertCalled     == res.node = "expert"
SummarizerCalled == res.node = "summarizer"

\* of the expert call in res: the expert's name and its two entries
ResName     == ExpertNodes[res.g][res.i]
ResAnalysis == res.out.val[GroupKey(res.g)][ResName]
ResSearch   == res.out.val["search_results"][SearchKey(ResName)]

\* the queries the response of env yields when the model call returns
ExpectedQueries ==
    CASE env.response.form \in {"json", "fenced"} -> env.response.queries
      [] env.response.form = "no_queries" -> <<>>
      [] OTHER -> env.response.lines

\* the messages of the failures an expert call meets under env
ExpertFailures ==
    (IF ~env.api_key THEN {NoApiKey} ELSE {})
    \cup (IF env.api_key /\ env.llm_raise \cap {"queries", "analysis"} # {}
          THEN {LlmError} ELSE {})
    \cup (IF /\ env.api_key
             /\ "queries" \notin env.llm_raise
             /\ \E k \in DOMAIN ExpectedQueries :
                    env.search[ExpectedQueries[k]] = "malformed"
          THEN {AttrError} ELSE {})
    \cup (IF env.api_key /\ env.store_fail THEN {StoreError} ELSE {})

AllSearchesRaise == \A q \in Queries : env.search[q] = "raise"

\* only the search collaborator fails
OnlySearchFails ==
    /\ AllSearchesRaise
    /\ env.api_key
    /\ env.llm_raise \cap {"queries", "analysis"} = {}
    /\ ~env.store_fail

\* expert k of group g has returned in the running group graph
ExpertFinished(g, k) == sub[g].phase # "idle" /\ sub[g].pc > k

\* the groups that run side by side before the join
FirstTier == {g \in Groups : <<"initializer", GroupNode(g)>> \in MainEdges}

StrategyStarted == sub[GroupOf("strategy_group")].phase # "idle"

FinalRunning ==
    "final_synthesis" \in active /\ task["final_synthesis"] = "running"

C2_AllExpertKeysKept ==
    /\ \A g \in Groups : \A k \in 1..NumExperts(g) :
          ExpertFinished(g, k) =>
             ExpertNodes[g][k] \in DOMAIN Get(sub[g].st, GroupKey(g), EmptyDict)
    /\ status # "running" =>
          \A g \in Groups :
             /\ GroupKey(g) \in DOMAIN state
             /\ DOMAIN state[GroupKey(g)] = Range(ExpertNodes[g])

\* C3: an expert task never raises; it returns an entry under its own name
\* whose value is not empty, and the value is "Error in analysis: <message>"
\* when one of its steps failed, the model's analysis otherwise.
C3_ExpertDegradesNotFails ==
    ExpertCalled =>
       /\ ~res.out.raised
       /\ GroupKey(res.g) \in DOMAIN res.out.val
       /\ ResName \in DOMAIN res.out.val[GroupKey(res.g)]
       /\ ResAnalysis # ""
       /\ ExpertFailures # {} =>
             \E m \in ExpertFailures : ResAnalysis = "Error in analysis: " \o m
       /\ ExpertFailures = {} => ResAnalysis = AnalysisText(ResName)

\* C3 witness: an expert whose searches all raised and whose analysis call
\* raised has returned the error string
C3_Witness ==
    /\ ExpertCalled
    /\ env.api_key /\ AllSearchesRaise /\ Len(ExpectedQueries) > 0
    /\ env.llm_raise = {"analysis"}
    /\ ~res.out.raised
    /\ ResAnalysis = "Error in analysis: " \o LlmError

\* C4: no exception reaches the caller of invoke, and a finished run holds
\* 25 expert entries, 5 group summaries and a final report.
C4_NoExceptionReachesCaller ==
    /\ status # "raised"
    /\ status = "done" =>
          /\ \A g \in Groups :
                /\ GroupKey(g) \in DOMAIN state
                /\ Cardinality(DOMAIN state[GroupKey(g)]) = NumExperts(g)
          /\ "group_summaries" \in DOMAIN state
          /\ Cardinality(DOMAIN state["group_summaries"]) = NumGroups
          /\ "final_report" \in DOMAIN state

\* C5: with no credential configured, get_model's error leaves the task that
\* called it: it is not turned into an "Error in ..." string.
C5_MissingCredentialIsFatal ==
    (/\ res.node \in {"expert", "summarizer", "final_synthesis"}
     /\ ~env.api_key
     /\ state \notin {Malformed(q) : q \in Questions}) =>
        /\ res.out.raised
        /\ res.out.msg = NoApiKey

\* C6 as stated: when every search raises, the expert's search entry has
\* the shape {error}, and the analysis is still the model's text.
C6_SearchEntryIsError ==
    (ExpertCalled /\ OnlySearchFails) =>
        /\ DOMAIN ResSearch = {"error"}
        /\ ResAnalysis = AnalysisText(ResName)

\* C6 as amended: when every search raises and nothing else fails, the
\* expert's search entry is {queries, results} with the generated queries and
\* no result, one search request was sent per query, and the analysis is the
\* text of a model call whose compiled block holds zero results.
C6_SearchEntryHasNoResults ==
    (ExpertCalled /\ OnlySearchFails) =>
        /\ DOMAIN ResSearch = {"queries", "results"}
        /\ ResSearch.queries = ExpectedQueries
        /\ ResSearch.results = <<>>
        /\ ResAnalysis = AnalysisText(ResName)
        /\ Len(res.requests) = Len(ExpectedQueries) + 2
        /\ \A k \in DOMAIN ExpectedQueries :
              /\ res.requests[k + 1].to = "search"
              /\ res.requests[k + 1].call = ExpectedQueries[k]
        /\ LET last == res.requests[Len(res.requests)]
           IN  last.to = "llm" /\ last.call = "analysis" /\ last.n_results = 0

\* C6 witness: an expert has returned after both of its two searches raised
C6_Witness ==
    /\ ExpertCalled /\ OnlySearchFails
    /\ Len(ExpectedQueries) = 2
    /\ ~res.out.raised
    /\ ResSearch.results = <<>>

\* C7: when the summarizer of a group runs, every expert of the group has
\* returned, in list order, and group_<g> holds all their entries.
C7_SummarizerSeesAllExperts ==
    \A g \in Groups :
        (sub[g].phase = "running" /\ sub[g].pc = SummarizerIndex(g)) =>
            /\ \A k \in 1..NumExperts(g) : ExpertFinished(g, k)
            /\ DOMAIN Get(sub[g].st, GroupKey(g), EmptyDict)
                  = Range(ExpertNodes[g])

SummarizerFailures ==
    (IF /\ GroupKey(res.g) \in DOMAIN state
        /\ state[GroupKey(res.g)] = NotAMapping
     THEN {"'str' object has no attribute 'items'"} ELSE {})
    \cup (IF ~env.api_key THEN {NoApiKey} ELSE {})
    \cup (IF "report" \in env.llm_raise THEN {LlmError} ELSE {})
    \cup (IF env.store_fail THEN {StoreError} ELSE {})

ResSummary == res.out.val["group_summaries"][GroupName(res.g)]

C10_PersistenceIsBestEffort ==
    (/\ ExpertCalled
     /\ ExpertFailures = {StoreError}) =>
        /\ ResAnalysis = AnalysisText(ResName)
        /\ DOMAIN ResSearch = {"queries", "results"}

\* the keys of the run state that hold a mapping tasks add entries to
MappingKeys == {GroupKey(g) : g \in Groups} \cup {"search_results", "group_summaries"}

\* C11: merging the returns of the four group tasks that run side by side
\* never fails, and when the run has ended the state holds, whatever the
\* interleaving was, the summary of each of them and the entries of all
\* their experts.
C11_ParallelMergeNeverFails ==
    /\ error # InvalidUpdate
    /\ status # "running" =>
          \A g \in FirstTier :
             /\ GroupName(g) \in DOMAIN Get(state, "group_summaries", EmptyDict)
             /\ \A k \in 1..NumExperts(g) :
                   SearchKey(ExpertNodes[g][k])
                       \in DOMAIN Get(state, "search_results", EmptyDict)

\* every entry of the mappings of a, and every question slot of a, is in b
\* with the same value
Kept(a, b) ==
    \A k \in DOMAIN a :
        /\ k \in {QuestionKey(g) : g \in Groups} => k \in DOMAIN b /\ b[k] = a[k]
        /\ k \in MappingKeys =>
              /\ k \in DOMAIN b
              /\ \A n \in DOMAIN a[k] : n \in DOMAIN b[k] /\ b[k][n] = a[k][n]

\* C12: no step of a run deletes or replaces an entry of group_<g>,
\* search_results or group_summaries, or a question_<g> slot, neither in the
\* state of the main graph nor in the state a running group graph works on.
C12_StateGrowsMonotonically ==
    [][/\ Kept(state, state')
       /\ \A g \in Groups :
             sub[g].phase # "idle" => Kept(sub[g].st, sub'[g].st)]_vars

\* C13: final_report is in the state only once final_synthesis has returned
\* and the run is over, and every run that has ended, degraded or not, holds
\* a final_report: the model's text or "Error in final synthesis: <message>".
C13_FinalReportWrittenOnceAtEnd ==
    /\ "final_report" \in DOMAIN state => status = "done"
    /\ "final_synthesis" \in DOMAIN writes =>
          DOMAIN writes["final_synthesis"] = {"final_report"}
    /\ status # "running" =>
          /\ "final_report" \in DOMAIN state
          /\ \/ state["final_report"] = ReportText
             \/ \E m \in {NoApiKey, LlmError, StoreError} :
                   state["final_report"] = "Error in final synthesis: " \o m

\* C14: the initializer returns exactly question_1..question_5, each equal
\* to the input question ("" when the state has no question), and applying
\* its return leaves every other field of the state as it was.
C14_InitializerWritesFiveSlots ==
    res.node = "initializer" =>
        LET out   == res.out.val
            after == apply_writes(state, ("initializer" :> out))
        IN  /\ ~res.out.raised
            /\ DOMAIN out = {QuestionKey(g) : g \in Groups}
            /\ \A k \in DOMAIN out :
                  out[k] = (IF "question" \in DOMAIN state
                            THEN state["question"] ELSE "")
            /\ ~after.raised
            /\ DOMAIN after.val = DOMAIN state \cup DOMAIN out
            /\ \A k \in DOMAIN state \ DOMAIN out : after.val[k] = state[k]

\* C14 witness: the initializer has returned on a state that holds a
\* question and the fields of a finished run
C14_Witness ==
    /\ res.node = "initializer"
    /\ \E q \in Questions \ {""} :
          /\ state = Populated(q)
          /\ res.out.val["question_3"] = q
    /\ "final_report" \notin DOMAIN res.out.val

\* C16: a strategy expert called on two states that agree on question_5
\* sends the same requests to the model and to the search collaborator and
\* returns the same value, whatever group_1..group_4, search_results and
\* group_summaries hold in the two states.
C16_StrategyExpertsIgnoreOtherGroups ==
    (ExpertCalled /\ res.g = GroupOf("strategy_group")) =>
        \A other \in TaskStates :
            Get(other, QuestionKey(res.g), "") = Get(state, QuestionKey(res.g), "") =>
                /\ expert_analysis(env, res.g, res.i, other) = res.out
                /\ expert_requests(env, res.g, res.i, other) = res.requests

\* C16 witness: a strategy expert has sent its analysis request and returned
\* on a state that holds the other groups' outputs, and a state without them
\* has the same question_5
C16_Witness ==
    /\ ExpertCalled /\ res.g = GroupOf("strategy_group")
    /\ \E q \in Questions \ {""} :
          /\ state = Populated(q)
          /\ AfterInitializer(q) \in TaskStates
          /\ AfterInitializer(q)["question_5"] = state["question_5"]
    /\ Len(res.requests) >= 2
    /\ res.requests[Len(res.requests)].call = "analysis"
    /\ ResAnalysis = AnalysisText(ResName)

\* the search requests among the requests of the call in res
SearchRequests == SelectSeq(res.requests, LAMBDA r : r.to = "search")

\* the result lists of the queries qs whose search does not raise under
\* env, one after the other in the order of qs
RECURSIVE SucceededResults(_)
SucceededResults(qs) ==
    IF qs = <<>> THEN <<>>
    ELSE LET last == qs[Len(qs)]
         IN  SucceededResults(SubSeq(qs, 1, Len(qs) - 1))
                \o (IF env.search[last] = "raise" THEN <<>>
                    ELSE simple_search(env, last).val)

\* C19: an expert whose queries were generated sends one search request per
\* query, in query order, whether or not some of them raise; the results it
\* returns are those of the queries whose search succeeded, concatenated in
\* query order.
C19_SearchesEachQueryInOrder ==
    (ExpertCalled /\ env.api_key /\ "queries" \notin env.llm_raise) =>
        /\ Len(SearchRequests) = Len(ExpectedQueries)
        /\ \A k \in DOMAIN ExpectedQueries :
              SearchRequests[k].call = ExpectedQueries[k]
        /\ DOMAIN ResSearch = {"queries", "results"} =>
              ResSearch.results = SucceededResults(ExpectedQueries)
        /\ res.requests[Len(res.requests)].call = "analysis" =>
              res.requests[Len(res.requests)].n_results
                  = Len(SucceededResults(ExpectedQueries))

\* C19 witness: an expert whose first search raised has searched its second
\* query too and returned the second query's results alone
C19_Witness ==
    /\ ExpertCalled
    /\ ExpectedQueries = <<"q1", "q2">>
    /\ env.search["q1"] = "raise" /\ env.search["q2"] = "hits"
    /\ Len(SearchRequests) = 2
    /\ DOMAIN ResSearch = {"queries", "results"}
    /\ ResSearch.results = simple_search(env, "q2").val
    /\ Len(ResSearch.results) > 0

\* the question copies of state that are present and not empty
SetCopies == {i \in Groups : Get(state, QuestionKey(i), "") # ""}

\* C17: the question final_synthesis puts into its request is the question
\* field when it is not empty, else the lowest-numbered question_<i> that is
\* present and not empty, else "No question provided".
C17_FinalQuestionSelection ==
    (res.node = "final_synthesis" /\ res.requests # <<>>) =>
        res.requests[1].question =
            IF Get(state, "question", "") # "" THEN state["question"]
            ELSE IF SetCopies # {}
                 THEN state[QuestionKey(CHOOSE i \in SetCopies :
                                            \A j \in SetCopies : i <= j)]
                 ELSE "No question provided"

\* C17 witness: final_synthesis has sent its request on a state whose
\* question is empty, whose question_1 is absent, whose question_2 is empty
\* and whose question_3 and question_4 hold different texts
C17_Witness ==
    /\ res.node = "final_synthesis"
    /\ "question" \in DOMAIN state /\ state["question"] = ""
    /\ "question_1" \notin DOMAIN state
    /\ Get(state, "question_2", "x") = ""
    /\ SetCopies = {3, 4}
    /\ state["question_3"] # state["question_4"]
    /\ Len(res.requests) = 1
    /\ res.requests[1].question = state["question_3"]

\* the quoted-looking lines of the response of env
ResponseLines == env.response.lines

\* C18: when the response is malformed text or JSON that is no object, the
\* expert does not raise: it searches the first 5 quoted-looking lines of the
\* response in order (none when there is none), then requests its analysis,
\* and returns the analysis unless a search result is malformed.
C18_UnparsedResponseFallsBack ==
    (/\ ExpertCalled
     /\ env.response.form \in {"not_object", "invalid"}
     /\ env.api_key /\ env.llm_raise = {} /\ ~env.store_fail) =>
        /\ ~res.out.raised
        /\ Len(SearchRequests) <= 5
        /\ Len(SearchRequests) =
              (IF Len(ResponseLines) <= 5 THEN Len(ResponseLines) ELSE 5)
        /\ \A k \in DOMAIN SearchRequests :
              SearchRequests[k].call = ResponseLines[k]
        /\ (\A k \in DOMAIN SearchRequests :
               env.search[SearchRequests[k].call] # "malformed") =>
              /\ res.requests[Len(res.requests)].call = "analysis"
              /\ ResAnalysis = AnalysisText(ResName)
              /\ Len(ResSearch.queries) = Len(SearchRequests)

\* C18 witness: an expert given malformed text with 6 quoted-looking lines
\* has searched 5 of them and returned its analysis
C18_Witness ==
    /\ ExpertCalled
    /\ env.response.form = "invalid"
    /\ Len(ResponseLines) = 6
    /\ ResponseLines[6] # ResponseLines[5]
    /\ Len(SearchRequests) = 5
    /\ ~res.out.raised
    /\ ResAnalysis = AnalysisText(ResName)
    /\ Len(ResSearch.queries) = 5

\* the expert nodes wired into the group graphs, as <<graph, position>>
Wired == UNION {{<<g, i>> : i \in DOMAIN GraphExperts[g]} : g \in Groups}

WiredAgent(w) == ExpertAgent(GraphExperts[w[1]][w[2]])

\* the group nodes that have returned in the current superstep
Returned == DOMAIN writes \cap GroupNodes

\* the names of the wired experts and the display names of the summarizers
\* are pairwise distinct
NamesDistinct ==
    /\ Cardinality(Wired) = 25
    /\ \A v, w \in Wired :
          v # w => WiredAgent(v).agent_name # WiredAgent(w).agent_name
    /\ \A g, h \in Groups :
          g # h => Summarizer(GraphSummarizer[g]).group_name
                      # Summarizer(GraphSummarizer[h]).group_name

\* each graph's summarizer was created with the names and the group key of
\* the experts wired into the graph, and the graphs run with these values
WiringAgrees ==
    \A g \in Groups :
        LET summarizer == Summarizer(GraphSummarizer[g])
        IN  /\ Range(summarizer.expert_names)
                  = {WiredAgent(w).agent_name : w \in {v \in Wired : v[1] = g}}
            /\ \A w \in {v \in Wired : v[1] = g} :
                  WiredAgent(w).group_key = summarizer.group_key
            /\ summarizer.group_key = GroupKey(g)
            /\ summarizer.group_name = GroupName(g)
            /\ summarizer.expert_names = SummarizerExperts[g]
            /\ ExpertNodes[g] = [i \in DOMAIN GraphExperts[g] |->
                                    WiredAgent(<<g, i>>).agent_name]

\* C15: the 25 expert names are pairwise distinct, and so are the 5 display
\* names; the expert-name list of each group's summarizer is the set of names
\* of the experts wired into that group's graph; every expert's group key is
\* the group key of the summarizer of its graph; and the returns of two group
\* tasks never share a key of group_<g>, search_results or group_summaries.
C15_NamesAndWiringAgree ==
    /\ NamesDistinct
    /\ WiringAgrees
    /\ \A a, b \in Returned :
          a # b =>
             \A k \in MappingKeys :
                 DOMAIN Get(writes[a], k, EmptyDict)
                     \cap DOMAIN Get(writes[b], k, EmptyDict) = {}

\* C15 witness: two group tasks have returned, each with entries of its own
\* in its group key, in search_results and in group_summaries
C15_Witness ==
    /\ {GroupNode(1), GroupNode(2)} \subseteq Returned
    /\ \A g \in {1, 2} :
          /\ DOMAIN writes[GroupNode(g)][GroupKey(g)] # {}
          /\ DOMAIN writes[GroupNode(g)]["search_results"] # {}
          /\ DOMAIN writes[GroupNode(g)]["group_summaries"] = {GroupName(g)}

\* C20: in a group graph built from no expert, the first task is the
\* summarizer: it can start at once and no expert can; when it has returned
\* the group has ended after that one task, with the summary as its only
\* addition to the state, and nothing can start any more.
C20_NoExpertsSummarizerOnly ==
    \A g \in Groups :
        (sub[g].phase # "idle" /\ expert_nodes[g] = <<>>) =>
            /\ sub[g].pc \in {1, 2}
            /\ sub[g].pc = 1 =>
                  /\ sub[g].phase \in {"ready", "running"}
                  /\ SummarizerIndex(g) = 1
            /\ sub[g].phase = "ready" =>
                  ENABLED SummarizerStart(g) /\ ~ENABLED ExpertStart(g)
            /\ sub[g].pc = 2 =>
                  /\ sub[g].phase = "ended"
                  /\ DOMAIN sub[g].st = DOMAIN state \cup {"group_summaries"}
                  /\ DOMAIN sub[g].st["group_summaries"] = {GroupName(g)}
                  /\ ~ENABLED (ExpertStart(g) \/ SummarizerStart(g))

\* C20 witness: a group graph built from no expert has ended after its
\* summarizer returned
C20_Witness ==
    \E g \in Groups :
        /\ expert_nodes[g] = <<>>
        /\ sub[g].phase = "ended"
        /\ sub[g].pc = 2
        /\ GroupName(g) \in DOMAIN sub[g].st["group_summaries"]
        /\ GroupKey(g) \notin DOMAIN sub[g].st

\* C21: no exception ends the run, no group graph runs a node twice, and
\* when the run is over every group graph, the strategy group included, has
\* run its experts and its summarizer once each and the run is done.
C21_EveryNodeRunsOnce ==
    /\ \A g \in Groups : sub[g].pc <= SummarizerIndex(g) + 1
    /\ status # "running" =>
          /\ status = "done"
          /\ \A g \in Groups :
                /\ sub[g].phase = "ended"
                /\ sub[g].pc = SummarizerIndex(g) + 1

\* the messages an expert task's steps raise
ExpertMessages == {NoApiKey, LlmError, SearchError, AttrError, StoreError}

\* C22: in the return of an expert task the search entry is {error: m}
\* exactly when the group entry is "Error in analysis: m", with the same m;
\* otherwise the search entry has exactly queries and results and the group
\* entry is the text of the analysis call.
C22_ExpertEntriesAgree ==
    ExpertCalled =>
        /\ DOMAIN ResSearch = {"error"} =>
              ResAnalysis = "Error in analysis: " \o ResSearch.error
        /\ \A m \in ExpertMessages :
              ResAnalysis = "Error in analysis: " \o m =>
                 DOMAIN ResSearch = {"error"} /\ ResSearch.error = m
        /\ DOMAIN ResSearch # {"error"} =>
              /\ DOMAIN ResSearch = {"queries", "results"}
              /\ ResAnalysis = AnalysisText(ResName)
              /\ res.requests[Len(res.requests)].call = "analysis"

\* C22 witness: an expert whose search returned a malformed result has
\* returned the same message in both entries
C22_Witness ==
    /\ ExpertCalled
    /\ ExpertFailures = {AttrError}
    /\ DOMAIN ResSearch = {"error"}
    /\ ResSearch.error = AttrError
    /\ ResAnalysis = "Error in analysis: " \o AttrError

\* the state after the return in res is applied to the state it was called on
AfterReturn == apply_writes(state, (res.node :> res.out.val))

\* C23: an expert returns exactly group_<g> with the one key of its name and
\* search_results with the one key <name>_search, on the success and on the
\* error path; a summarizer returns exactly group_summaries with the one key
\* of its display name; the join node returns no field; and applying any of
\* these returns leaves every field it does not hold as it was.
C23_TasksWriteOwnKeysOnly ==
    /\ ExpertCalled =>
          /\ ~res.out.raised
          /\ DOMAIN res.out.val = {GroupKey(res.g), "search_results"}
          /\ DOMAIN res.out.val[GroupKey(res.g)] = {ResName}
          /\ DOMAIN res.out.val["search_results"] = {SearchKey(ResName)}
    /\ SummarizerCalled =>
          /\ ~res.out.raised
          /\ DOMAIN res.out.val = {"group_summaries"}
          /\ DOMAIN res.out.val["group_summaries"] = {GroupName(res.g)}
    /\ res.node = "join" =>
          /\ ~res.out.raised
          /\ DOMAIN res.out.val = {}
    /\ res.node \in {"expert", "summarizer", "join"} =>
          /\ LET after == AfterReturn
             IN  /\ ~after.raised
                 /\ \A k \in DOMAIN state \ DOMAIN res.out.val :
                       after.val[k] = state[k]
          /\ \A k \in {"question", "final_report"}
                        \cup {QuestionKey(g) : g \in Groups} :
                k \notin DOMAIN res.out.val

\* C23 witness: an expert has returned on its error path, on a state that
\* holds the fields of a finished run, and the other groups' entries, the
\* summaries and the question are as they were
C23_Witness ==
    /\ ExpertCalled
    /\ ~env.api_key
    /\ \E q \in Questions \ {""} : state = Populated(q)
    /\ DOMAIN ResSearch = {"error"}
    /\ Cardinality(DOMAIN res.out.val) = 2
    /\ AfterReturn.val["group_summaries"] = state["group_summaries"]
    /\ AfterReturn.val["question"] = state["question"]

====
